---- MODULE Spec2Model ----
(***************************************************************************)
(* Model of internal/copilot/models.go: ModelsCache, a process-local       *)
(* stale-while-revalidate cache of the Copilot model list.                  *)
(*                                                                         *)
(* One cache instance, a constructor call, caller threads that run          *)
(* GetModels / SaveToFile / LoadFromFile, and up to MaxRefresh              *)
(* background goroutines started by `go c.refresh(...)`.  A []byte is a     *)
(* reference to a backing array on the heap, so two slices may alias.       *)
(***************************************************************************)
EXTENDS Integers, Sequences, FiniteSets, TLC

\* ---------------------------------------------------------------- bounds
\* background refresh goroutines that may be alive at once
MaxRefresh == 2
\* last instant of the clock
MaxTime == 2

\* ------------------------------------------------------------- constants
\* time.Time{}: the zero value of lastFetch before the first commit
ZeroTime == -1
\* the only status refresh accepts (resp.StatusCode != 200)
StatusOK == 200

\* caller threads
Callers == {1, 2}
\* the threads that also save and load the snapshot file
Filers == {1}
\* refresh activations: 0 is the synchronous call made by NewModelsCache,
\* 1..MaxRefresh are goroutines started by GetModels
Ctor == 0
Slots == 1..MaxRefresh
Procs == 0..MaxRefresh
\* ttl values handed to NewModelsCache
TTLs == {0, 1}
\* time.Since of the zero time saturates at the largest Duration
MaxDuration == MaxTime + 2

\* heap addresses of backing arrays; 0 is the nil slice
Nil == 0
Addrs == 1..(Cardinality(Callers) + 2)

\* -------------------------------------------------------- response bodies
EMPTY == << >>
BAD == << "{" >>
ARR == << "[", "1", ",", "2", ",", "3", "]" >>
OBJ == << "{", "\"", "a", "\"", ":", "[", "]", "}" >>
Bodies == {EMPTY, BAD, ARR, OBJ}

Digits == {"1", "2", "3"}
Letters == {"a", "b"}

\* ------------------------------------------------- json.Unmarshal(data,&js)
\* Recursive-descent recogniser; each operator returns the index after the
\* construct starting at i, or 0 when the input is not well formed.
RECURSIVE jsonDigits(_, _)
jsonDigits(s, i) ==
    IF i <= Len(s) /\ s[i] \in Digits THEN jsonDigits(s, i + 1) ELSE i

jsonNumber(s, i) ==
    IF i <= Len(s) /\ s[i] \in Digits THEN jsonDigits(s, i + 1) ELSE 0

RECURSIVE jsonChars(_, _)
jsonChars(s, i) ==
    IF i > Len(s) THEN 0
    ELSE IF s[i] = "\"" THEN i + 1
    ELSE IF s[i] \in Letters THEN jsonChars(s, i + 1)
    ELSE 0

jsonString(s, i) ==
    IF i <= Len(s) /\ s[i] = "\"" THEN jsonChars(s, i + 1) ELSE 0

RECURSIVE jsonValue(_, _)
RECURSIVE jsonElements(_, _)
RECURSIVE jsonMembers(_, _)

\* after "[" value: either "," value ... or "]"
jsonElements(s, i) ==
    LET j == jsonValue(s, i) IN
    IF j = 0 \/ j > Len(s) THEN 0
    ELSE IF s[j] = "]" THEN j + 1
    ELSE IF s[j] = "," THEN jsonElements(s, j + 1)
    ELSE 0

\* after "{": string ":" value, then "," ... or "}"
jsonMembers(s, i) ==
    LET k == jsonString(s, i) IN
    IF k = 0 \/ k > Len(s) \/ s[k] # ":" THEN 0
    ELSE LET j == jsonValue(s, k + 1) IN
         IF j = 0 \/ j > Len(s) THEN 0
         ELSE IF s[j] = "}" THEN j + 1
         ELSE IF s[j] = "," THEN jsonMembers(s, j + 1)
         ELSE 0

jsonValue(s, i) ==
    IF i > Len(s) THEN 0
    ELSE IF s[i] = "{" THEN
        (IF i + 1 <= Len(s) /\ s[i + 1] = "}" THEN i + 2 ELSE jsonMembers(s, i + 1))
    ELSE IF s[i] = "[" THEN
        (IF i + 1 <= Len(s) /\ s[i + 1] = "]" THEN i + 2 ELSE jsonElements(s, i + 1))
    ELSE IF s[i] = "\"" THEN jsonString(s, i)
    ELSE jsonNumber(s, i)

\* err == nil from json.Unmarshal into interface{}: any well-formed value
jsonUnmarshalOK(data) == jsonValue(data, 1) = Len(data) + 1


\* ------------------------------------------------------ upstream responses
\* What the token provider and the transport answer to one refresh:
\* tok: GetToken succeeded; do: httpClient.Do returned a response;
\* status: resp.StatusCode; read: io.ReadAll succeeded; body: the bytes read.
Resp(tok, do, status, read, body) ==
    [tok |-> tok, do |-> do, status |-> status, read |-> read, body |-> body]

Responses ==
    {Resp(FALSE, FALSE, 0, FALSE, EMPTY), Resp(TRUE, FALSE, 0, FALSE, EMPTY)}
    \cup {Resp(TRUE, TRUE, s, TRUE, OBJ) : s \in {201, 401, 500}}
    \cup {Resp(TRUE, TRUE, StatusOK, FALSE, EMPTY)}
    \cup {Resp(TRUE, TRUE, StatusOK, TRUE, b) : b \in Bodies}

\* ---------------------------------------------------------------- state
VARIABLES
    now,         \* wall clock
    cstate,      \* "none" | "constructing" | "ready" | "failed" (NewModelsCache returned nil, err)
    ttl,         \* ModelsCache.ttl
    modelsJSON,  \* ModelsCache.modelsJSON: address of the backing array, or Nil
    lastFetch,   \* ModelsCache.lastFetch
    heap,        \* backing arrays: bytes now held, and orig, the bytes when the array was stored
    muW,         \* ModelsCache.mu: a writer holds the lock
    muR,         \* ModelsCache.mu: number of readers holding the lock
    rpc,         \* per refresh activation: "free" | "fetch" | "lock" | "store" | "failed" | "done"
    rdata,       \* per refresh activation: its local `data` once read and validated
    cpc,         \* per caller: "idle" | "gm_read" | "sv_write" | "ld_lock" | "ld_store"
    ret,         \* per caller: the frame of its current or last call
    file,        \* the file at the path given to SaveToFile / LoadFromFile
    client,      \* ModelsCache.httpClient: "none" | "default" (http.DefaultClient) | "configured"
    ctxDone,     \* per caller: the context it passes to its calls has been canceled
    rctx,        \* per refresh activation: the context it was called with
    lastStatus,  \* observation: the status of the response last handled by a refresh
    env,         \* the process environment: the proxy variables
    cfg          \* the result of config.Load: the proxy it chose and the client it built

vars == <<now, cstate, ttl, modelsJSON, lastFetch, heap, muW, muR, rpc, rdata, cpc, ret, file,
          client, ctxDone, rctx, lastStatus, env, cfg>>

\* context.Background(): never canceled, no deadline
Background == 0
\* the context x is done
ctxCanceled(x) == x # Background /\ ctxDone[x]

\* the proxy variables config.Load looks at, and values they may hold
ProxyVars == {"HTTPS_PROXY", "https_proxy", "HTTP_PROXY", "http_proxy", "ALL_PROXY", "all_proxy"}
UNSET == "<unset>"
BADURL == "%zz"
EnvValues == {UNSET, "", "http://p1", "http://p2", BADURL}
NoCfg == [loaded |-> FALSE, err |-> FALSE, httpProxy |-> "", clientProxy |-> ""]
NoStatus == [on |-> FALSE, status |-> 0, err |-> << >>]

NoRet == [op |-> "none", err |-> "nil", ptr |-> Nil, expired |-> FALSE, data |-> EMPTY]
FreeCell == [bytes |-> EMPTY, orig |-> EMPTY]
\* saved: the content was written by a successful SaveToFile
NoFile == [exists |-> FALSE, bytes |-> EMPTY, saved |-> FALSE]

\* bytes of the slice at address a (len(nil) = 0)
BytesAt(h, a) == IF a = Nil THEN EMPTY ELSE h[a].bytes
Blob == BytesAt(heap, modelsJSON)

\* time.Since(t)
TimeSince(t) == IF t = ZeroTime THEN MaxDuration ELSE now - t

\* ------------------------------------------------------------ Go heap
\* arrays reachable from the cache field m and from the callers' frames r
RootsOf(m, r) == ({m} \cup {r[c].ptr : c \in Callers}) \ {Nil}

\* unreachable arrays are collected
Collect(h, roots) == [a \in Addrs |-> IF a \in roots THEN h[a] ELSE FreeCell]

\* a fresh array (io.ReadAll / os.ReadFile allocate their result)
NewAddr(roots) == CHOOSE a \in Addrs \ roots : \A b \in Addrs \ roots : a <= b

\* the zero values of the program's memory
InitMem ==
    /\ now = 0
    /\ ttl = 0
    /\ modelsJSON = Nil
    /\ lastFetch = ZeroTime
    /\ heap = [a \in Addrs |-> FreeCell]
    /\ muW = FALSE
    /\ muR = 0
    /\ rpc = [p \in Procs |-> "free"]
    /\ rdata = [p \in Procs |-> EMPTY]
    /\ cpc = [c \in Callers |-> "idle"]
    /\ ret = [c \in Callers |-> NoRet]
    /\ file = NoFile
    /\ client = "none"
    /\ ctxDone = [c \in Callers |-> FALSE]
    /\ rctx = [p \in Procs |-> Background]

\* no cache constructed yet
Init ==
    /\ InitMem
    /\ cstate = "none"
    /\ lastStatus = NoStatus
    /\ env = [v \in ProxyVars |-> UNSET]
    /\ cfg = NoCfg

\* a ModelsCache made as a struct value, not by NewModelsCache: every field
\* has its zero value and the methods that need no token manager can be called
InitZero ==
    /\ InitMem
    /\ cstate = "zero"
    /\ lastStatus = NoStatus
    /\ env = [v \in ProxyVars |-> UNSET]
    /\ cfg = NoCfg

\* the callers hold a *ModelsCache
HasCache == cstate \in {"ready", "zero"}

\* before config.Load, in an environment that sets the proxy variables in
\* any way
InitEnv ==
    /\ InitMem
    /\ cstate = "none"
    /\ lastStatus = NoStatus
    /\ env \in [ProxyVars -> EnvValues]
    /\ cfg = NoCfg

\* the same, observing what each refresh is answered and returns
InitLog ==
    /\ InitMem
    /\ cstate = "none"
    /\ lastStatus = [on |-> TRUE, status |-> 0, err |-> << >>]
    /\ env = [v \in ProxyVars |-> UNSET]
    /\ cfg = NoCfg

\* ------------------------------------------------------------- the clock
Tick ==
    /\ now < MaxTime
    /\ now' = now + 1
    /\ UNCHANGED <<cstate, ttl, modelsJSON, lastFetch, heap, muW, muR, rpc, rdata, cpc, ret, file>>
    /\ UNCHANGED <<client, ctxDone, rctx, lastStatus, env, cfg>>

\* ------------------------------------------------------------ refresh
\* refresh without the json.Unmarshal check
refreshErrNoValidate(r) ==
    IF ~r.tok THEN "token"
    ELSE IF ~r.do THEN "transport"
    ELSE IF r.status # StatusOK THEN "status"
    ELSE IF ~r.read THEN "read"
    ELSE "nil"

\* a check that takes every 2xx status for success
refreshErr2xx(r) ==
    IF ~r.tok THEN "token"
    ELSE IF ~r.do THEN "transport"
    ELSE IF r.status < 200 \/ r.status > 299 THEN "status"
    ELSE IF ~r.read THEN "read"
    ELSE IF ~jsonUnmarshalOK(r.body) THEN "invalid"
    ELSE "nil"

\* models.go:65-97: the first failing step decides the error returned
refreshErr(r) ==
    IF ~r.tok THEN "token"
    ELSE IF ~r.do THEN "transport"
    ELSE IF r.status # StatusOK THEN "status"
    ELSE IF ~r.read THEN "read"
    ELSE IF ~jsonUnmarshalOK(r.body) THEN "invalid"
    ELSE "nil"

\* the error value: models.go:86-87
\* fmt.Errorf("models API error: %s - %s", resp.Status, string(body))
refreshErrText(r) ==
    IF refreshErr(r) = "status"
    THEN <<"models API error: ", r.status, " - ", r.body>>
    ELSE <<refreshErr(r)>>

\* copy(dst, src): the first min(len) bytes of dst are overwritten
copyInto(dst, src) ==
    [i \in 1..Len(dst) |-> IF i <= Len(src) THEN src[i] ELSE dst[i]]

\* a store that reuses the array in place: copy(c.modelsJSON, data)
commitInPlace(data) ==
    IF modelsJSON = Nil
    THEN LET a == NewAddr(RootsOf(modelsJSON, ret)) IN
         /\ modelsJSON' = a
         /\ lastFetch' = now
         /\ heap' = Collect([heap EXCEPT ![a] = [bytes |-> data, orig |-> data]],
                            RootsOf(a, ret))
    ELSE /\ modelsJSON' = modelsJSON
         /\ lastFetch' = now
         /\ heap' = [heap EXCEPT ![modelsJSON].bytes = copyInto(@, data)]

\* a store that is skipped when another store was made at the same time
commitFirstWins(data) ==
    IF modelsJSON # Nil /\ lastFetch = now
    THEN UNCHANGED <<modelsJSON, lastFetch, heap>>
    ELSE LET a == NewAddr(RootsOf(modelsJSON, ret)) IN
         /\ modelsJSON' = a
         /\ lastFetch' = now
         /\ heap' = Collect([heap EXCEPT ![a] = [bytes |-> data, orig |-> data]],
                            RootsOf(a, ret))

\* a store that forgets the time
commitNoTime(data) ==
    LET a == NewAddr(RootsOf(modelsJSON, ret)) IN
    /\ modelsJSON' = a
    /\ lastFetch' = lastFetch
    /\ heap' = Collect([heap EXCEPT ![a] = [bytes |-> data, orig |-> data]],
                       RootsOf(a, ret))

\* models.go:99-102 `c.modelsJSON = data; c.lastFetch = time.Now()`:
\* the field is pointed at the new array, the old array is left as it is
commit(data) ==
    LET a == NewAddr(RootsOf(modelsJSON, ret)) IN
    /\ modelsJSON' = a
    /\ lastFetch' = now
    /\ heap' = Collect([heap EXCEPT ![a] = [bytes |-> data, orig |-> data]],
                       RootsOf(a, ret))

\* an error path that drops the cached list
refreshFailClear(p) ==
    /\ rpc' = [rpc EXCEPT ![p] = IF p = Ctor THEN "free" ELSE "failed"]
    /\ cstate' = IF p = Ctor THEN "failed" ELSE cstate
    /\ modelsJSON' = Nil
    /\ lastFetch' = ZeroTime
    /\ heap' = Collect(heap, RootsOf(Nil, ret))
    /\ UNCHANGED rdata

\* a constructor that does not look at the error of its refresh
refreshFailIgnored(p) ==
    /\ rpc' = [rpc EXCEPT ![p] = IF p = Ctor THEN "free" ELSE "failed"]
    /\ cstate' = IF p = Ctor THEN "ready" ELSE cstate
    /\ UNCHANGED <<modelsJSON, lastFetch, heap, rdata>>

\* an error return of refresh: no statement between models.go:65 and :97
\* assigns to a field of the cache; NewModelsCache then returns nil, err
refreshFail(p) ==
    /\ rpc' = [rpc EXCEPT ![p] = IF p = Ctor THEN "free" ELSE "failed"]
    /\ cstate' = IF p = Ctor THEN "failed" ELSE cstate
    /\ UNCHANGED <<modelsJSON, lastFetch, heap, rdata>>

\* models.go:28-37: build the struct and call refresh with the caller's ctx
\* x: the ctx argument; h: the httpClient argument (nil gives "default")
NewModelsCache(t, x, h) ==
    /\ cstate \in {"none", "failed"}
    /\ cstate' = "constructing"
    /\ ttl' = t
    /\ client' = h
    /\ rctx' = [rctx EXCEPT ![Ctor] = x]
    /\ rpc' = [rpc EXCEPT ![Ctor] = "fetch"]
    /\ UNCHANGED <<now, modelsJSON, lastFetch, heap, muW, muR, rdata, cpc, ret, file>>
    /\ UNCHANGED <<ctxDone, lastStatus, env, cfg>>

\* models.go:65-97 with the token provider and upstream answering r
\* (a request made with a canceled context does not succeed)
RefreshRecv(p, r) ==
    /\ rpc[p] = "fetch"
    /\ ctxCanceled(rctx[p]) => (~r.tok \/ ~r.do)
    /\ lastStatus' = IF lastStatus.on
                     THEN [on |-> TRUE, status |-> IF r.tok /\ r.do THEN r.status ELSE 0,
                           err |-> refreshErrText(r)]
                     ELSE lastStatus
    /\ IF refreshErr(r) = "nil"
       THEN /\ rpc' = [rpc EXCEPT ![p] = "lock"]
            /\ rdata' = [rdata EXCEPT ![p] = r.body]
            /\ UNCHANGED <<cstate, modelsJSON, lastFetch, heap>>
       ELSE refreshFail(p)
    /\ UNCHANGED <<now, ttl, muW, muR, cpc, ret, file>>
    /\ UNCHANGED <<client, ctxDone, rctx, env, cfg>>

RefreshFetch(p) == \E r \in Responses : RefreshRecv(p, r)

\* models.go:99 c.mu.Lock()
RefreshLock(p) ==
    /\ rpc[p] = "lock"
    /\ ~muW /\ muR = 0
    /\ muW' = TRUE
    /\ rpc' = [rpc EXCEPT ![p] = "store"]
    /\ UNCHANGED <<now, cstate, ttl, modelsJSON, lastFetch, heap, muR, rdata, cpc, ret, file>>
    /\ UNCHANGED <<client, ctxDone, rctx, lastStatus, env, cfg>>

\* models.go:100-103, and 37-40 when called by NewModelsCache
RefreshStore(p) ==
    /\ rpc[p] = "store"
    /\ commit(rdata[p])
    /\ muW' = FALSE
    /\ rpc' = [rpc EXCEPT ![p] = IF p = Ctor THEN "free" ELSE "done"]
    /\ rdata' = [rdata EXCEPT ![p] = EMPTY]
    /\ cstate' = IF p = Ctor THEN "ready" ELSE cstate
    /\ UNCHANGED <<now, ttl, muR, cpc, ret, file>>
    /\ UNCHANGED <<client, ctxDone, rctx, lastStatus, env, cfg>>

\* the goroutine ends; the error of a background refresh is dropped
RefreshExit(p) ==
    /\ rpc[p] \in {"failed", "done"}
    /\ rpc' = [rpc EXCEPT ![p] = "free"]
    /\ UNCHANGED <<now, cstate, ttl, modelsJSON, lastFetch, heap, muW, muR, rdata, cpc, ret, file>>
    /\ UNCHANGED <<client, ctxDone, rctx, lastStatus, env, cfg>>

\* ------------------------------------------------------------ GetModels
\* goroutine slots of S not in use
FreeSlots(S) == {s \in S : rpc[s] = "free"}
MinSlot(S) == CHOOSE s \in S : \A t \in S : s <= t

\* expiry one instant early
isExpiredGeq(since, t) == since >= t

\* models.go:47 `expired := time.Since(c.lastFetch) > c.ttl`
isExpired(since, t) == since > t

\* a read that gives up once the list has expired
getModelsDecideErr(models, n, expired) ==
    IF ~expired /\ n > 0 THEN [ptr |-> models, err |-> "nil", spawn |-> FALSE]
    ELSE [ptr |-> Nil, err |-> "unavailable", spawn |-> TRUE]

\* models.go:50-59: what GetModels returns and whether it starts a refresh
getModelsDecide(models, n, expired) ==
    IF ~expired /\ n > 0 THEN [ptr |-> models, err |-> "nil", spawn |-> FALSE]
    ELSE IF n > 0 THEN [ptr |-> models, err |-> "nil", spawn |-> TRUE]
    ELSE [ptr |-> Nil, err |-> "unavailable", spawn |-> TRUE]

\* a refresh started with the caller's own context
refreshCtxOfCaller(c) == c

\* models.go:55 `go c.refresh(context.Background())`: the context the
\* goroutine started by caller c runs with
refreshCtx(c) == Background

\* models.go:45 c.mu.RLock().  The number of goroutines is bounded by S: a
\* call is made only while a goroutine can still be started for it.
GetModelsRLock(c, S) ==
    /\ cstate = "ready"
    /\ cpc[c] = "idle"
    /\ Cardinality(FreeSlots(S)) > Cardinality({d \in Callers : cpc[d] = "gm_read"})
    /\ ~muW
    /\ muR' = muR + 1
    /\ cpc' = [cpc EXCEPT ![c] = "gm_read"]
    /\ ret' = [ret EXCEPT ![c] = [NoRet EXCEPT !.op = "GetModels"]]
    /\ heap' = Collect(heap, RootsOf(modelsJSON, ret'))
    /\ UNCHANGED <<now, cstate, ttl, modelsJSON, lastFetch, muW, rpc, rdata, file>>
    /\ UNCHANGED <<client, ctxDone, rctx, lastStatus, env, cfg>>

\* models.go:46-59: snapshot, RUnlock, decide, `go c.refresh(context.Background())`
GetModelsReturn(c, S) ==
    /\ cpc[c] = "gm_read"
    /\ LET expired == isExpired(TimeSince(lastFetch), ttl)
           d == getModelsDecide(modelsJSON, Len(Blob), expired)
       IN /\ ret' = [ret EXCEPT ![c] = [op |-> "GetModels", err |-> d.err, ptr |-> d.ptr,
                                        expired |-> expired, data |-> EMPTY]]
          /\ rpc' = IF d.spawn THEN [rpc EXCEPT ![MinSlot(FreeSlots(S))] = "fetch"] ELSE rpc
          /\ rctx' = IF d.spawn THEN [rctx EXCEPT ![MinSlot(FreeSlots(S))] = refreshCtx(c)]
                     ELSE rctx
    /\ muR' = muR - 1
    /\ cpc' = [cpc EXCEPT ![c] = "idle"]
    /\ UNCHANGED <<now, cstate, ttl, modelsJSON, lastFetch, heap, muW, rdata, file>>
    /\ UNCHANGED <<client, ctxDone, lastStatus, env, cfg>>

\* ------------------------------------------------------------ SaveToFile
\* models.go:108 c.mu.RLock()
SaveRLock(c) ==
    /\ HasCache
    /\ cpc[c] = "idle"
    /\ ~muW
    /\ muR' = muR + 1
    /\ cpc' = [cpc EXCEPT ![c] = "sv_write"]
    /\ ret' = [ret EXCEPT ![c] = [NoRet EXCEPT !.op = "SaveToFile"]]
    /\ heap' = Collect(heap, RootsOf(modelsJSON, ret'))
    /\ UNCHANGED <<now, cstate, ttl, modelsJSON, lastFetch, muW, rpc, rdata, file>>
    /\ UNCHANGED <<client, ctxDone, rctx, lastStatus, env, cfg>>

\* os.WriteFile(path, data, 0644): the file holds data, or the write fails
\* and the file is as before or truncated
writeFileShort(f, data, ok, trunc) ==
    IF ok THEN [exists |-> TRUE, bytes |-> SubSeq(data, 1, Len(data) - 1), saved |-> TRUE]
    ELSE IF trunc THEN [exists |-> TRUE, bytes |-> EMPTY, saved |-> FALSE]
    ELSE f

writeFile(f, data, ok, trunc) ==
    IF ok THEN [exists |-> TRUE, bytes |-> data, saved |-> TRUE]
    ELSE IF trunc THEN [exists |-> TRUE, bytes |-> EMPTY, saved |-> FALSE]
    ELSE f

\* a save that does not look at the length
saveNoDataNever(n) == FALSE

\* models.go:110 `if len(c.modelsJSON) == 0`
saveNoData(n) == n = 0

\* models.go:110-113, then the deferred RUnlock
SaveWrite(c) ==
    /\ cpc[c] = "sv_write"
    /\ IF saveNoData(Len(Blob))
       THEN /\ ret' = [ret EXCEPT ![c].err = "nodata"]
            /\ file' = file
       ELSE \E ok \in BOOLEAN, trunc \in BOOLEAN :
            /\ file' = writeFile(file, Blob, ok, trunc)
            /\ ret' = [ret EXCEPT ![c].err = IF ok THEN "nil" ELSE "write"]
    /\ muR' = muR - 1
    /\ cpc' = [cpc EXCEPT ![c] = "idle"]
    /\ UNCHANGED <<now, cstate, ttl, modelsJSON, lastFetch, heap, muW, rpc, rdata>>
    /\ UNCHANGED <<client, ctxDone, rctx, lastStatus, env, cfg>>

\* ---------------------------------------------------------- LoadFromFile
\* models.go:118-126: os.ReadFile, then json.Unmarshal
loadErr(f) ==
    IF ~f.exists THEN "read"
    ELSE IF ~jsonUnmarshalOK(f.bytes) THEN "invalid"
    ELSE "nil"

\* models.go:118-126
LoadRead(c) ==
    /\ HasCache
    /\ cpc[c] = "idle"
    /\ ret' = [ret EXCEPT ![c] = [NoRet EXCEPT !.op = "LoadFromFile", !.err = loadErr(file),
                                             !.data = IF loadErr(file) = "nil" THEN file.bytes ELSE EMPTY]]
    /\ cpc' = [cpc EXCEPT ![c] = IF loadErr(file) = "nil" THEN "ld_lock" ELSE "idle"]
    /\ heap' = Collect(heap, RootsOf(modelsJSON, ret'))
    /\ UNCHANGED <<now, cstate, ttl, modelsJSON, lastFetch, muW, muR, rpc, rdata, file>>
    /\ UNCHANGED <<client, ctxDone, rctx, lastStatus, env, cfg>>

\* models.go:127 c.mu.Lock()
LoadLock(c) ==
    /\ cpc[c] = "ld_lock"
    /\ ~muW /\ muR = 0
    /\ muW' = TRUE
    /\ cpc' = [cpc EXCEPT ![c] = "ld_store"]
    /\ UNCHANGED <<now, cstate, ttl, modelsJSON, lastFetch, heap, muR, rpc, rdata, ret, file>>
    /\ UNCHANGED <<client, ctxDone, rctx, lastStatus, env, cfg>>

\* models.go:128-131
LoadStore(c) ==
    /\ cpc[c] = "ld_store"
    /\ commit(ret[c].data)
    /\ muW' = FALSE
    /\ cpc' = [cpc EXCEPT ![c] = "idle"]
    /\ ret' = [ret EXCEPT ![c].data = EMPTY]
    /\ UNCHANGED <<now, cstate, ttl, muR, rpc, rdata, file>>
    /\ UNCHANGED <<client, ctxDone, rctx, lastStatus, env, cfg>>

\* ------------------------------------------------------------ environment
\* another program writes the file (a saved snapshot, or anything else)
EnvWriteFile(b) ==
    /\ file' = [exists |-> TRUE, bytes |-> b, saved |-> FALSE]
    /\ UNCHANGED <<now, cstate, ttl, modelsJSON, lastFetch, heap, muW, muR, rpc, rdata, cpc, ret>>
    /\ UNCHANGED <<client, ctxDone, rctx, lastStatus, env, cfg>>

\* a caller writes into the slice GetModels returned to it: b[i] = x
CallerWrite(c, i, x) ==
    /\ cpc[c] = "idle"
    /\ ret[c].op = "GetModels"
    /\ ret[c].ptr # Nil
    /\ i \in 1..Len(heap[ret[c].ptr].bytes)
    /\ heap[ret[c].ptr].bytes[i] # x
    /\ heap' = [heap EXCEPT ![ret[c].ptr].bytes[i] = x]
    /\ UNCHANGED <<now, cstate, ttl, modelsJSON, lastFetch, muW, muR, rpc, rdata, cpc, ret, file>>
    /\ UNCHANGED <<client, ctxDone, rctx, lastStatus, env, cfg>>

\* the read path: construction, readers, background refreshes
\* the caller cancels the context it passes to GetModels (models.go:44);
\* this may happen before, during or after a call
CancelCtx(c) ==
    /\ ~ctxDone[c]
    /\ ctxDone' = [ctxDone EXCEPT ![c] = TRUE]
    /\ UNCHANGED <<now, cstate, ttl, modelsJSON, lastFetch, heap, muW, muR, rpc, rdata, cpc,
                   ret, file, client, rctx, lastStatus, env, cfg>>

Next ==
    \/ Tick
    \/ \E t \in TTLs : NewModelsCache(t, Background, "configured")
    \/ \E p \in Procs : RefreshFetch(p)
    \/ \E p \in Procs : RefreshLock(p)
    \/ \E p \in Procs : RefreshStore(p)
    \/ \E p \in Slots : RefreshExit(p)
    \/ \E c \in Callers : GetModelsRLock(c, Slots)
    \/ \E c \in Callers : GetModelsReturn(c, Slots)

Spec == Init /\ [][Next]_vars

\* the read path with one background goroutine at a time, and a thread
\* that saves and loads the snapshot file
FileSlots == {1}

NextFile ==
    \/ Tick
    \/ \E t \in TTLs : NewModelsCache(t, Background, "configured")
    \/ \E p \in Procs : RefreshFetch(p)
    \/ \E p \in Procs : RefreshLock(p)
    \/ \E p \in Procs : RefreshStore(p)
    \/ \E p \in Slots : RefreshExit(p)
    \/ \E c \in Callers : GetModelsRLock(c, FileSlots)
    \/ \E c \in Callers : GetModelsReturn(c, FileSlots)
    \/ \E c \in Filers : SaveRLock(c)
    \/ \E c \in Filers : SaveWrite(c)
    \/ \E c \in Filers : LoadRead(c)
    \/ \E c \in Filers : LoadLock(c)
    \/ \E c \in Filers : LoadStore(c)
    \/ \E b \in Bodies : EnvWriteFile(b)

SpecFile == Init /\ [][NextFile]_vars

\* the read path with callers that also write into the bytes they are given
NextW ==
    \/ Next
    \/ \E c \in Callers : CallerWrite(c, 1, "[")

SpecW == Init /\ [][NextW]_vars

\* the read path with one background goroutine at a time, and callers whose
\* contexts get canceled; the constructor is called with a caller's context
NextCtx ==
    \/ Tick
    \/ \E t \in TTLs, x \in Callers : NewModelsCache(t, x, "configured")
    \/ \E p \in Procs : RefreshFetch(p)
    \/ \E p \in Procs : RefreshLock(p)
    \/ \E p \in Procs : RefreshStore(p)
    \/ \E p \in Slots : RefreshExit(p)
    \/ \E c \in Callers : GetModelsRLock(c, FileSlots)
    \/ \E c \in Callers : GetModelsReturn(c, FileSlots)
    \/ \E c \in Callers : CancelCtx(c)

SpecCtx == Init /\ [][NextCtx]_vars

\* the read path with one background goroutine at a time
NextOne ==
    \/ Tick
    \/ \E t \in TTLs : NewModelsCache(t, Background, "configured")
    \/ \E p \in Procs : RefreshFetch(p)
    \/ \E p \in Procs : RefreshLock(p)
    \/ \E p \in Procs : RefreshStore(p)
    \/ \E p \in Slots : RefreshExit(p)
    \/ \E c \in Callers : GetModelsRLock(c, FileSlots)
    \/ \E c \in Callers : GetModelsReturn(c, FileSlots)

\* the same with the answers and errors of the refreshes observed
SpecLog == InitLog /\ [][NextOne]_vars

\* a zero-value cache used only through SaveToFile and LoadFromFile
NextZero ==
    \/ Tick
    \/ \E c \in Filers : SaveRLock(c)
    \/ \E c \in Filers : SaveWrite(c)
    \/ \E c \in Filers : LoadRead(c)
    \/ \E c \in Filers : LoadLock(c)
    \/ \E c \in Filers : LoadStore(c)
    \/ \E b \in Bodies : EnvWriteFile(b)

SpecZero == InitZero /\ [][NextZero]_vars

\* sync.RWMutex: once a writer waits in Lock(), RLock() blocks until that
\* writer has had the lock, so readers cannot keep a writer out
WriterWaiting == \E p \in Procs : rpc[p] = "lock"

GetModelsRLockFair(c, S) == ~WriterWaiting /\ GetModelsRLock(c, S)

\* the httpClient has a Timeout (part_000:178-181); http.DefaultClient has none
HasTimeout == client = "configured"

\* the read path with one background goroutine at a time, a cache built
\* with the configured client or with none, and the steps that are sure to
\* happen: goroutines run, locks are granted and released, and a request
\* made by a client with a Timeout returns
NextLive ==
    \/ Tick
    \/ \E t \in TTLs, h \in {"default", "configured"} : NewModelsCache(t, Background, h)
    \/ \E p \in Procs : RefreshFetch(p)
    \/ \E p \in Procs : RefreshLock(p)
    \/ \E p \in Procs : RefreshStore(p)
    \/ \E p \in Slots : RefreshExit(p)
    \/ \E c \in Callers : GetModelsRLockFair(c, FileSlots)
    \/ \E c \in Callers : GetModelsReturn(c, FileSlots)

SpecLive ==
    /\ Init
    /\ [][NextLive]_vars
    /\ \A p \in Procs : WF_vars(HasTimeout /\ RefreshFetch(p))
    /\ \A p \in Procs : WF_vars(RefreshLock(p))
    /\ \A p \in Procs : WF_vars(RefreshStore(p))
    /\ \A c \in Callers : WF_vars(GetModelsReturn(c, FileSlots))

\* ------------------------------------------------------------ config.Load
\* part_000:89-94 getEnv: the value if the variable is set, else def
getEnv(e, key, def) == IF e[key] # UNSET THEN e[key] ELSE def

\* a lookup that asks for the plain-HTTP proxy first
loadProxyHTTPFirst(e) ==
    LET p1 == getEnv(e, "HTTP_PROXY", "")
        p2 == IF p1 = "" THEN getEnv(e, "http_proxy", "") ELSE p1
        p3 == IF p2 = "" THEN getEnv(e, "HTTPS_PROXY", "") ELSE p2
        p4 == IF p3 = "" THEN getEnv(e, "https_proxy", "") ELSE p3
        p5 == IF p4 = "" THEN getEnv(e, "ALL_PROXY", "") ELSE p4
        p6 == IF p5 = "" THEN getEnv(e, "all_proxy", "") ELSE p5
    IN p6

\* part_000:35-50: httpProxy after the six lookups
loadProxy(e) ==
    LET p1 == getEnv(e, "HTTPS_PROXY", "")
        p2 == IF p1 = "" THEN getEnv(e, "https_proxy", "") ELSE p1
        p3 == IF p2 = "" THEN getEnv(e, "HTTP_PROXY", "") ELSE p2
        p4 == IF p3 = "" THEN getEnv(e, "http_proxy", "") ELSE p3
        p5 == IF p4 = "" THEN getEnv(e, "ALL_PROXY", "") ELSE p4
        p6 == IF p5 = "" THEN getEnv(e, "all_proxy", "") ELSE p5
    IN p6

\* url.Parse(proxyURL) returns no error
urlParseOK(u) == u # BADURL

\* part_000:160-182: the client's Transport.Proxy ("" for none), or an error
createHTTPClient(proxyURL) ==
    IF proxyURL # ""
    THEN IF urlParseOK(proxyURL)
         THEN [err |-> FALSE, proxy |-> proxyURL]
         ELSE [err |-> TRUE, proxy |-> ""]
    ELSE [err |-> FALSE, proxy |-> ""]

\* part_000:33-67: Load, as far as the proxy goes
ConfigLoad ==
    /\ ~cfg.loaded
    /\ LET httpProxy == loadProxy(env)
           hc == createHTTPClient(httpProxy)
       IN cfg' = [loaded |-> TRUE, err |-> hc.err, httpProxy |-> httpProxy,
                  clientProxy |-> hc.proxy]
    /\ UNCHANGED <<now, cstate, ttl, modelsJSON, lastFetch, heap, muW, muR, rpc, rdata, cpc,
                   ret, file, client, ctxDone, rctx, lastStatus, env>>

NextProxy == ConfigLoad

SpecProxy == InitEnv /\ [][NextProxy]_vars

\* ================================================================ claims
\* a well-formed JSON object (not an array, not a scalar)
IsJSONObject(b) == jsonUnmarshalOK(b) /\ b[1] = "{"

\* refresh activation p returns an error in this step
RefreshFailed(p) ==
    /\ rpc[p] = "fetch"
    /\ IF p = Ctor THEN cstate' = "failed" ELSE rpc'[p] = "failed"

\* number of background goroutines alive
Alive(f) == Cardinality({s \in Slots : f[s] # "free"})

\* caller c holds the result of a completed, successful GetModels
HasResult(c) ==
    /\ cpc[c] = "idle"
    /\ ret[c].op = "GetModels"
    /\ ret[c].err = "nil"

\* C1: a refresh that returns an error, whatever the reason, writes nothing:
\* modelsJSON, its bytes and lastFetch are after the failing refresh what
\* they were before it.
C1_NoClobberOnFailure ==
    [][\A p \in Procs :
         RefreshFailed(p) =>
           /\ modelsJSON' = modelsJSON
           /\ lastFetch' = lastFetch
           /\ BytesAt(heap', modelsJSON') = Blob]_vars

\* a background refresh has failed and the cache still holds its list
C1_Witness ==
    \E p \in Slots :
        /\ rpc[p] = "failed"
        /\ modelsJSON # Nil
        /\ Blob = OBJ
        /\ lastFetch # ZeroTime

\* C2: GetModels called with a list stored and now - lastFetch > ttl returns
\* the stored bytes and no error, starts exactly one background refresh,
\* and its return never waits: it is enabled whatever the refreshes do.
C2_StaleServe ==
    /\ [](\A c \in Callers : cpc[c] = "gm_read" => ENABLED GetModelsReturn(c, Slots))
    /\ [][\A c \in Callers :
            (/\ cpc[c] = "gm_read" /\ cpc'[c] = "idle"
             /\ Len(Blob) > 0
             /\ TimeSince(lastFetch) > ttl)
            => /\ ret'[c].err = "nil"
               /\ ret'[c].ptr = modelsJSON
               /\ BytesAt(heap', ret'[c].ptr) = Blob
               /\ Alive(rpc') = Alive(rpc) + 1
               /\ \A s \in Slots : rpc'[s] # rpc[s] => rpc[s] = "free" /\ rpc'[s] = "fetch"]_vars

\* a caller was served the expired list while the refresh it started is alive
C2_Witness ==
    \E c \in Callers :
        /\ HasResult(c)
        /\ ret[c].expired
        /\ ret[c].ptr = modelsJSON
        /\ now - lastFetch > ttl
        /\ \E s \in Slots : rpc[s] = "fetch"

\* C3: GetModels called with a list stored and now - lastFetch <= ttl returns
\* the stored bytes and starts no refresh (so no token is asked for and no
\* request is sent on its behalf).
C3_FreshNoRefresh ==
    [][\A c \in Callers :
         (/\ cpc[c] = "gm_read" /\ cpc'[c] = "idle"
          /\ Len(Blob) > 0
          /\ TimeSince(lastFetch) <= ttl)
         => /\ ret'[c].err = "nil"
            /\ ret'[c].ptr = modelsJSON
            /\ BytesAt(heap', ret'[c].ptr) = Blob
            /\ rpc' = rpc /\ rdata' = rdata]_vars

\* a caller was served at age = ttl > 0 and no goroutine exists
C3_Witness ==
    \E c \in Callers :
        /\ HasResult(c)
        /\ ~ret[c].expired
        /\ ret[c].ptr = modelsJSON
        /\ ttl > 0
        /\ now - lastFetch = ttl
        /\ \A s \in Slots : rpc[s] = "free"

\* C4: whatever the interleaving of readers, refreshes and loads, the bytes
\* a GetModels result shows are the bytes of one commit, whole: the array it
\* points to still holds what was stored in it; and no reader holds the lock
\* while a writer does.
C4_AtomicReplace ==
    /\ ~(muW /\ muR > 0)
    /\ \A c \in Callers :
         HasResult(c) =>
           /\ ret[c].ptr # Nil
           /\ heap[ret[c].ptr].bytes = heap[ret[c].ptr].orig
           /\ heap[ret[c].ptr].bytes \in {ARR, OBJ}

\* a reader still holds the list of an earlier commit, whole, after a load
\* replaced it by another
C4_Witness ==
    \E c \in Callers :
        /\ HasResult(c)
        /\ ret[c].ptr # modelsJSON
        /\ BytesAt(heap, ret[c].ptr) = OBJ
        /\ Blob = ARR
        /\ \E f \in Filers : f # c /\ ret[f].op = "LoadFromFile" /\ ret[f].err = "nil"
                             /\ cpc[f] = "idle"

\* C5: once NewModelsCache has returned a cache, the list is never empty
\* and no GetModels returns an error, whatever refreshes failed since.
C5_NeverUnavailable ==
    /\ cstate = "ready" => Len(Blob) > 0
    /\ \A c \in Callers :
         (cpc[c] = "idle" /\ ret[c].op = "GetModels") => ret[c].err = "nil"

\* a read succeeded with the expired list after a background refresh failed
C5_Witness ==
    \E c \in Callers :
        /\ HasResult(c)
        /\ ret[c].expired
        /\ \E s \in Slots : rpc[s] = "failed"

\* C6: NewModelsCache returns a cache only with a list in it, fresh at the
\* moment of return; when its one fetch fails (token, transport, status
\* such as 401, unreadable or malformed body) it returns the error and no
\* cache, and nothing was stored.
C6_Construction ==
    /\ [](/\ cstate = "ready" => (modelsJSON # Nil /\ Len(Blob) > 0 /\ lastFetch # ZeroTime)
          /\ cstate \in {"none", "constructing", "failed"} =>
               (modelsJSON = Nil /\ lastFetch = ZeroTime /\ \A c \in Callers : cpc[c] = "idle" /\ ret[c] = NoRet))
    /\ [][(cstate = "constructing" /\ cstate' = "ready")
            => (rpc[Ctor] = "store" /\ now' - lastFetch' <= ttl')]_vars
    /\ [][\A r \in Responses :
            (/\ RefreshRecv(Ctor, r)
             /\ \/ ~r.tok
                \/ ~r.do
                \/ r.status \in {401, 500}
                \/ ~r.read
                \/ r.body \in {EMPTY, BAD})
            => cstate' = "failed"]_vars

\* the initial fetch failed: no cache
C6_Witness ==
    /\ cstate = "failed"
    /\ modelsJSON = Nil
    /\ rpc[Ctor] = "free"

\* C7: the stored list is at all times a well-formed JSON object.
C7_BlobIsObject == modelsJSON # Nil => IsJSONObject(Blob)

\* C8: LoadFromFile of a file that does not hold a well-formed JSON object
\* returns an error at once and leaves modelsJSON, its bytes and lastFetch
\* as they were.
C8_LoadRejectsNonObject ==
    [][\A c \in Filers :
         (/\ cpc[c] = "idle" /\ ret'[c].op = "LoadFromFile" /\ ret'[c] # ret[c]
          /\ file.exists
          /\ ~IsJSONObject(file.bytes))
         => /\ ret'[c].err # "nil"
            /\ cpc'[c] = "idle"
            /\ modelsJSON' = modelsJSON
            /\ lastFetch' = lastFetch
            /\ BytesAt(heap', modelsJSON') = Blob]_vars

\* C9: SaveToFile that succeeds writes exactly the stored bytes and no
\* SaveToFile changes the cache; LoadFromFile of a file holding bytes a
\* cache can hold reads them whole, and when it stores them the list is
\* those bytes and lastFetch is the time of the store, so the cache is
\* fresh.
C9_RoundTrip ==
    /\ [][\A c \in Filers :
            (cpc[c] = "sv_write" /\ cpc'[c] = "idle")
            => /\ modelsJSON' = modelsJSON /\ lastFetch' = lastFetch /\ heap' = heap
               /\ ret'[c].err = "nil" =>
                    file' = [exists |-> TRUE, bytes |-> Blob, saved |-> TRUE]]_vars
    /\ [][\A c \in Filers :
            (cpc[c] = "idle" /\ cpc'[c] = "ld_lock")
            => (file.exists /\ ret'[c].data = file.bytes)]_vars
    /\ [](\A c \in Filers :
            (file.exists /\ file.saved /\ cpc[c] = "idle") => loadErr(file) = "nil")
    /\ [][\A c \in Filers :
            (cpc[c] = "ld_store" /\ cpc'[c] = "idle")
            => /\ BytesAt(heap', modelsJSON') = ret[c].data
               /\ lastFetch' = now'
               /\ ~isExpired(now' - lastFetch', ttl')
               /\ ret'[c].err = "nil"]_vars

\* the file written by SaveToFile has been loaded: the list is the file's
\* bytes and is fresh
C9_Witness ==
    \E c \in Filers :
        /\ cpc[c] = "idle"
        /\ ret[c].op = "LoadFromFile"
        /\ ret[c].err = "nil"
        /\ file.saved
        /\ Blob = file.bytes
        /\ Blob = OBJ
        /\ lastFetch = now
        /\ now > 0

\* C10: a caller that writes into the bytes GetModels gave it changes
\* neither the stored list nor the bytes any other caller was given.
C10_IndependentSnapshot ==
    [][\A c \in Callers :
         CallerWrite(c, 1, "[")
         => /\ BytesAt(heap', modelsJSON') = Blob
            /\ \A d \in Callers \ {c} :
                 BytesAt(heap', ret'[d].ptr) = BytesAt(heap, ret[d].ptr)]_vars

\* a well-formed answer of the upstream
GoodResp == Resp(TRUE, TRUE, StatusOK, TRUE, OBJ)

\* C11: the refresh a stale GetModels starts does not depend on the caller's
\* context.  Whether or not the callers' contexts are canceled, a stale read
\* starts the refresh, a started refresh can receive a successful answer,
\* and a refresh holding the lock commits its body and the time.
C11_RefreshDetached ==
    /\ [](\A s \in Slots :
            /\ rpc[s] = "fetch" => ENABLED RefreshRecv(s, GoodResp)
            /\ rpc[s] = "store" =>
                 ENABLED (RefreshStore(s) /\ BytesAt(heap', modelsJSON') = rdata[s]
                                          /\ lastFetch' = now))
    /\ [][\A c \in Callers :
            (/\ ctxDone[c]
             /\ cpc[c] = "gm_read" /\ cpc'[c] = "idle"
             /\ ret'[c].expired
             /\ modelsJSON # Nil
             /\ FreeSlots(FileSlots) # {})
            => \E s \in FileSlots : rpc[s] = "free" /\ rpc'[s] = "fetch"]_vars

\* every caller's context is canceled, one of them got the stale bytes, and
\* the refresh it started has committed a new array at the present time
C11_Witness ==
    /\ \A c \in Callers : ctxDone[c]
    /\ \E c \in Callers :
        /\ HasResult(c)
        /\ ret[c].expired
        /\ ret[c].ptr # modelsJSON
    /\ \E s \in Slots : rpc[s] = "done"
    /\ lastFetch = now

\* the token was obtained and the upstream answered with a status
Answered(r) == r.tok /\ r.do

\* a refresh that holds the lock stores its own body and the present time
StoreCommits(p) ==
    (rpc[p] = "store" /\ rpc'[p] # "store")
    => /\ BytesAt(heap', modelsJSON') = rdata[p]
       /\ lastFetch' = now

C13_SaveNoData ==
    [][\A c \in Filers :
         (cpc[c] = "sv_write" /\ cpc'[c] = "idle" /\ Len(Blob) = 0)
         => /\ ret'[c].err = "nodata"
            /\ file' = file
            /\ UNCHANGED <<modelsJSON, lastFetch, heap>>]_vars

\* SaveToFile has returned the no-data error on a cache without a list while
\* a file written by someone else exists and is as it was
C13_Witness ==
    \E c \in Filers :
        /\ cpc[c] = "idle"
        /\ ret[c].op = "SaveToFile"
        /\ ret[c].err = "nodata"
        /\ modelsJSON = Nil
        /\ lastFetch = ZeroTime
        /\ file.exists /\ file.bytes = OBJ

\* caller c holds the lock (read or write)
CallerHoldsLock(c) == cpc[c] \in {"gm_read", "sv_write", "ld_store"}

\* the step caller c takes next is file I/O: os.WriteFile of the list
CallerAtIO(c) == cpc[c] = "sv_write" /\ ~saveNoData(Len(Blob))

\* C14: no file I/O is done while the lock of the cache is held: no caller
\* that holds the lock is about to do file I/O, so a refresh waiting for the
\* write lock is never kept waiting by someone's I/O.
C14_NoIOUnderLock ==
    /\ \A c \in Callers : ~(CallerHoldsLock(c) /\ CallerAtIO(c))
    /\ \A p \in Procs :
         (rpc[p] = "lock" /\ ~ENABLED RefreshLock(p))
         => \A c \in Callers : CallerHoldsLock(c) => ~CallerAtIO(c)

\* C15: the list and its time are one pair.  With no list stored lastFetch is
\* the zero time and with a list stored it is not; the two fields change only
\* together, in one step that holds the write lock and releases it, to a new
\* array and the time of that step; and no reader is between RLock and
\* RUnlock while a writer holds the lock.
C15_PairConsistent ==
    /\ [](modelsJSON = Nil <=> lastFetch = ZeroTime)
    /\ [](\A c \in Callers : cpc[c] \in {"gm_read", "sv_write"} => ~muW)
    /\ [][(modelsJSON' # modelsJSON \/ lastFetch' # lastFetch)
          => /\ muW /\ ~muW' /\ muR = 0
             /\ modelsJSON' # modelsJSON
             /\ modelsJSON' # Nil
             /\ lastFetch' = now]_vars

\* a later commit has replaced the pair while a reader still holds the array
\* of the earlier one, which it read as fresh
C15_Witness ==
    /\ now > 0
    /\ lastFetch = now
    /\ \E c \in Callers :
        /\ HasResult(c)
        /\ ~ret[c].expired
        /\ ret[c].ptr # Nil
        /\ ret[c].ptr # modelsJSON

\* C16: refreshes running at the same time are harmless and the last write
\* wins.  At most one refresh holds the write lock; the refresh that holds it
\* stores its own body and the present time, whatever was stored before and
\* whenever its answer arrived; and nothing else changes the list, so a
\* refresh that fails or ends leaves the list of the last store in place.
C16_LastWriteWins ==
    /\ [](\A p, q \in Procs : (rpc[p] = "store" /\ rpc[q] = "store") => p = q)
    /\ [][\A p \in Slots : StoreCommits(p)]_vars
    /\ [][(modelsJSON' # modelsJSON \/ BytesAt(heap', modelsJSON') # Blob)
          => \E p \in Procs : rpc[p] = "store" /\ rpc'[p] # "store"]_vars

\* two background refreshes ran at the same time and both have committed;
\* the list is the array of the later store, made at the present time
C16_Witness ==
    /\ \A s \in Slots : rpc[s] = "done"
    /\ Cardinality(Slots) > 1
    /\ Blob = ARR
    /\ lastFetch = now

\* the stored list is older than ttl
Stale == isExpired(TimeSince(lastFetch), ttl)

\* C17: revalidation happens.  A background refresh whose answer was a
\* success with a valid body b eventually has committed: the list is b and
\* lastFetch is the present time, so the cache is fresh.  A refresh that
\* fails leaves a stale cache stale, and a read of a stale list starts a
\* refresh again whenever a goroutine can be started.
C17_EventuallyRevalidated ==
    /\ \A p \in FileSlots : \A b \in Bodies :
         (rpc[p] = "lock" /\ rdata[p] = b)
           ~> (rpc[p] = "done" /\ Blob = b /\ lastFetch = now /\ ~Stale)
    /\ [][\A p \in FileSlots : (RefreshFailed(p) /\ Stale) => Stale']_vars
    /\ [][\A c \in Callers :
            (/\ cpc[c] = "gm_read" /\ cpc'[c] = "idle"
             /\ Stale /\ modelsJSON # Nil
             /\ FreeSlots(FileSlots) # {})
            => \E s \in FileSlots : rpc[s] = "free" /\ rpc'[s] = "fetch"]_vars

\* a caller was given the stale array, the refresh it started has committed
\* and ended, and another caller has since read the new array as fresh
C17_Witness ==
    /\ \A p \in Slots : rpc[p] = "free"
    /\ ~Stale
    /\ \E c, d \in Callers :
        /\ HasResult(d)
        /\ ret[d].expired
        /\ ret[d].ptr # modelsJSON
        /\ HasResult(c)
        /\ ~ret[c].expired
        /\ ret[c].ptr = modelsJSON

\* C18: every background refresh ends, also one whose upstream never
\* answers and also in a cache built without an HTTP client: a refresh that
\* is waiting for its answer eventually is not.
C18_RefreshTerminates ==
    \A p \in FileSlots : (rpc[p] = "fetch") ~> (rpc[p] # "fetch")

\* C19: a successful LoadFromFile counts as a refresh.  Its store replaces
\* the list by the bytes read from the file and sets lastFetch to the time
\* of the load, so the cache is fresh after it whatever it was before and
\* however old the file is; and a GetModels that finds the cache fresh
\* returns the stored bytes without an error and starts no refresh.
C19_LoadIsRefresh ==
    /\ [][\A c \in Filers :
            (cpc[c] = "ld_store" /\ cpc'[c] = "idle")
            => /\ BytesAt(heap', modelsJSON') = ret[c].data
               /\ modelsJSON' # modelsJSON
               /\ lastFetch' = now
               /\ ~Stale']_vars
    /\ [][\A d \in Callers :
            (cpc[d] = "gm_read" /\ cpc'[d] = "idle" /\ ~Stale /\ modelsJSON # Nil)
            => /\ ret'[d].err = "nil"
               /\ ret'[d].ptr = modelsJSON
               /\ rpc' = rpc]_vars

\* a snapshot saved earlier was loaded at a later time, and another caller
\* has read the loaded bytes as fresh while no refresh is running
C19_Witness ==
    /\ now > 0
    /\ lastFetch = now
    /\ file.saved
    /\ Blob = file.bytes
    /\ \A s \in Slots : rpc[s] = "free"
    /\ \E c \in Filers :
        /\ cpc[c] = "idle"
        /\ ret[c].op = "LoadFromFile"
        /\ ret[c].err = "nil"
        /\ \E d \in Callers \ {c} :
            /\ HasResult(d)
            /\ ~ret[d].expired
            /\ ret[d].ptr = modelsJSON

\* the order of precedence of the proxy variables
ProxyPrecedence ==
    <<"HTTPS_PROXY", "https_proxy", "HTTP_PROXY", "http_proxy", "ALL_PROXY", "all_proxy">>

RECURSIVE FirstNonEmpty(_, _)
\* the first value from position i on that is set and not the empty string,
\* "" when there is none
FirstNonEmpty(e, i) ==
    IF i > Len(ProxyPrecedence) THEN ""
    ELSE IF e[ProxyPrecedence[i]] \notin {UNSET, ""} THEN e[ProxyPrecedence[i]]
    ELSE FirstNonEmpty(e, i + 1)

\* C20: the proxy of the HTTP client built by Load is the first non-empty
\* value among HTTPS_PROXY, https_proxy, HTTP_PROXY, http_proxy, ALL_PROXY,
\* all_proxy in that order, a variable set to the empty string counting as
\* unset; the client has no proxy when none of them is non-empty.  (Load
\* fails, and builds no client, exactly when that first value is no URL.)
C20_ProxyPrecedence ==
    cfg.loaded =>
        /\ cfg.httpProxy = FirstNonEmpty(env, 1)
        /\ cfg.err <=> FirstNonEmpty(env, 1) = BADURL
        /\ ~cfg.err => cfg.clientProxy = FirstNonEmpty(env, 1)

\* Load has built a client whose proxy is the value of HTTP_PROXY, with
\* HTTPS_PROXY set to the empty string, https_proxy unset and ALL_PROXY set
\* to another proxy
C20_Witness ==
    /\ cfg.loaded
    /\ ~cfg.err
    /\ env["HTTPS_PROXY"] = ""
    /\ env["https_proxy"] = UNSET
    /\ env["HTTP_PROXY"] = "http://p1"
    /\ env["ALL_PROXY"] = "http://p2"
    /\ cfg.clientProxy = "http://p1"

====
